---------------------------- MODULE Spec2Model ----------------------------
(***************************************************************************)
(* Face liveness detector: the challenge orchestrator (useFaceLiveness),   *)
(* the MotionValidator, the BlinkDetector, the face selector and the       *)
(* FaceLandmarker singleton.                                               *)
(*                                                                         *)
(* Numbers.  Yaw, pitch and the blendshape scores are fixed-point          *)
(* hundredths (0.12 is 12, 0.4 is 40); the directional ratio is a          *)
(* percentage; progress is counted in 1/90ths (90 is 1.0: 90 is a common   *)
(* multiple of the three denominators 30, 18 and 15 that the code divides  *)
(* by, so every progress value of the code is an integer here); times are  *)
(* milliseconds.                                                           *)
(*                                                                         *)
(* State.  timeRemaining, a field of LivenessState that only the display   *)
(* reads, is left out.                                                     *)
(* The feedback messages are the code's texts without their pictographs   *)
(* and with plain dashes.                                                  *)
(*                                                                         *)
(* Time.  The code reads Date.now() only to form                           *)
(* Date.now() - stepStartTime.current, so the model keeps that difference  *)
(* (elapsed), saturated just above STEP_TIMEOUT_MS where every larger      *)
(* value behaves alike, and each pending setTimeout keeps the delay that   *)
(* is left before it may run.                                              *)
(*                                                                         *)
(* Seven specifications share the variables:                               *)
(*   Spec          the hook useFaceLiveness driven by init, commands,      *)
(*                 ticks, the pause timer and the clock;                   *)
(*   SpecMotion    one MotionValidator fed pose after pose;                *)
(*   SpecBlink     one BlinkDetector fed frame after frame;                *)
(*   SpecSelect    selectLargestFace applied to detection results;         *)
(*   SpecSingleton the FaceLandmarker singleton of the mediapipe module;   *)
(*   SpecLifecycle the mount effect of the hook: init() and its cleanup;   *)
(*   SpecSequence  a session with any sequence LivenessCam may generate.   *)
(***************************************************************************)
EXTENDS Integers, Sequences, FiniteSets

VARIABLES
  state,              \* the observable LivenessState (useState)
  challengeSequence,  \* the hook's argument, fixed for the session
  currentStepRef,     \* currentStepRef.current (0-based)
  isRunningRef,       \* isRunningRef.current
  hasAdvanced,        \* hasAdvanced.current
  centerFrames,       \* centerFrames.current
  elapsed,            \* Date.now() - stepStartTime.current, saturated
  poseHistory,        \* motionValidator.current.poseHistory
  phase,              \* blinkDetector.current.phase
  timers,             \* pending setTimeout callbacks of advanceStep, oldest first
  initPc,             \* where the async init() of the effect stands
  validated,          \* history: the step indices advanced since the last start
  ev,                 \* history: the operation that produced this state
  seen,               \* history: what the last run of detectLoop selected
  fedPoses,           \* SpecMotion: every pose fed since the validator's reset
  fedScores,          \* SpecBlink: every frame fed since the detector's reset
  result,             \* SpecMotion/SpecBlink: what the last addFrame returned
  faceLandmarks,      \* SpecSelect: the faces of the last detection result
  faceBlendshapes,    \* SpecSelect: their blendshapes, or null
  selection,          \* SpecSelect: what selectLargestFace returned for them
  faceLandmarker,     \* mediapipe module: the instance kept, 0 for null
  initPromise,        \* mediapipe module: the creation promise kept, 0 for null
  promises,           \* the creation promises made so far, by number
  instances,          \* the FaceLandmarker instances made so far, by number
  calls,              \* SpecSingleton: what each getOrCreateFaceLandmarker() returned
  effects             \* SpecLifecycle: the runs of the hook's effect, by mount

vars == <<state, challengeSequence, currentStepRef, isRunningRef, hasAdvanced,
          centerFrames, elapsed, poseHistory, phase, timers, initPc,
          validated, ev, seen, fedPoses, fedScores, result,
          faceLandmarks, faceBlendshapes, selection,
          faceLandmarker, initPromise, promises, instances, calls, effects>>

---------------------------------------------------------------------------
(* Program constants *)

STEP_TIMEOUT_MS == 5000
CENTER_YAW_THRESHOLD == 25
CENTER_PITCH_THRESHOLD == 20
CENTER_HOLD_FRAMES == 15
PAUSE_MS == 800

MIN_DISPLACEMENT_HORIZONTAL == 30
MIN_DISPLACEMENT_VERTICAL == 18
MAX_FRAME_DELTA == 12
WINDOW_SIZE == 18
MIN_DIRECTIONAL_RATIO == 55
MIN_FRAMES == 6

BLINK_THRESHOLD == 40
OPEN_THRESHOLD == 20

\* progress 1.0
FULL == 90

---------------------------------------------------------------------------
(* Bounds of the model *)

\* SpecMotion: the first MaxLead moves of a run are free, later ones repeat
MaxLead == 3
\* SpecMotion: poses fed to one validator
MaxFed == 20
\* SpecBlink: frames fed to one detector between resets
MaxBlinkFrames == 3
\* Spec: a command is issued only while fewer pause timers than this are pending
MaxPending == 2
\* Spec: poses fed to the validator during one head step
MaxHeadFrames == 7
\* Spec: value of the center hold counter
MaxCenterFrames == 16
\* SpecSelect: faces in one detection result
MaxFaces == 3
\* SpecSingleton: getOrCreateFaceLandmarker() calls
MaxCalls == 4
\* SpecLifecycle: mounts of the component
MaxMounts == 2

---------------------------------------------------------------------------
(* Small helpers *)

Abs(x) == IF x < 0 THEN -x ELSE x
Min(a, b) == IF a < b THEN a ELSE b
Max(a, b) == IF a > b THEN a ELSE b
Last(s) == s[Len(s)]

---------------------------------------------------------------------------
(* MotionValidator *)

Directions == {"turnLeft", "turnRight", "lookUp", "lookDown"}

NoReason == "none"
SuddenMovement == "Sudden movement detected - please move slowly"

Pose(y, p) == [yaw |-> y, pitch |-> p]

getMinDisplacement(direction) ==
  IF direction = "lookUp" \/ direction = "lookDown"
  THEN MIN_DISPLACEMENT_VERTICAL
  ELSE MIN_DISPLACEMENT_HORIZONTAL

getAxis(direction) ==
  IF direction = "turnLeft" \/ direction = "turnRight" THEN "yaw" ELSE "pitch"

getExpectedSign(direction) ==
  CASE direction = "turnLeft"  -> 1
    [] direction = "turnRight" -> -1
    [] direction = "lookUp"    -> -1
    [] direction = "lookDown"  -> 1

getAxisValue(pose, axis) == IF axis = "yaw" THEN pose.yaw ELSE pose.pitch

\* the first loop of validate: some consecutive pair jumps
hasJumpLastPairOnly(history, axis) ==
  Abs(getAxisValue(history[Len(history)], axis)
      - getAxisValue(history[Len(history) - 1], axis)) > MAX_FRAME_DELTA

hasJump(history, axis) ==
  \E i \in 2..Len(history) :
    Abs(getAxisValue(history[i], axis) - getAxisValue(history[i - 1], axis))
      > MAX_FRAME_DELTA

totalDisplacement(history, axis, expectedSign) ==
  (getAxisValue(history[Len(history)], axis) - getAxisValue(history[1], axis))
    * expectedSign

correctDirectionCount(history, axis, expectedSign) ==
  Cardinality({i \in 2..Len(history) :
    (getAxisValue(history[i], axis) - getAxisValue(history[i - 1], axis))
      * expectedSign > 0})

\* Math.min(1, Math.max(0, totalDisplacement / minDisp)), in 1/90ths
progressUnclamped(disp, minDisp) == (disp * FULL) \div minDisp

progressOf(disp, minDisp) ==
  Min(FULL, Max(0, (disp * FULL) \div minDisp))

isValidDisplacementOnly(disp, minDisp, count, n) ==
  disp >= minDisp

isValidStrict(disp, minDisp, count, n) ==
  /\ disp > minDisp
  /\ count * 100 >= MIN_DIRECTIONAL_RATIO * (n - 1)

isValidOf(disp, minDisp, count, n) ==
  /\ disp >= minDisp
  /\ count * 100 >= MIN_DIRECTIONAL_RATIO * (n - 1)

validate(history, direction) ==
  LET axis == getAxis(direction)
      expectedSign == getExpectedSign(direction)
      disp == totalDisplacement(history, axis, expectedSign)
      count == correctDirectionCount(history, axis, expectedSign)
      minDisp == getMinDisplacement(direction)
  IN  IF hasJump(history, axis)
      THEN [isValid |-> FALSE, progress |-> 0, rejectionReason |-> SuddenMovement]
      ELSE [isValid |-> isValidOf(disp, minDisp, count, Len(history)),
            progress |-> progressOf(disp, minDisp),
            rejectionReason |-> NoReason]

slideWindowKeepsAll(history, pose) == Append(history, pose)

\* push, slice(-WINDOW_SIZE)
slideWindow(history, pose) ==
  LET pushed == Append(history, pose)
  IN  IF Len(pushed) > WINDOW_SIZE
      THEN SubSeq(pushed, Len(pushed) - WINDOW_SIZE + 1, Len(pushed))
      ELSE pushed

tooFew(window) == Len(window) < MIN_FRAMES

\* MotionValidator.addFrame: the new poseHistory and the MotionResult
addFrame(history, pose, direction) ==
  LET window == slideWindow(history, pose)
  IN  [poseHistory |-> window,
       result |-> IF tooFew(window)
                  THEN [isValid |-> FALSE, progress |-> 0, rejectionReason |-> NoReason]
                  ELSE validate(window, direction)]

---------------------------------------------------------------------------
(* BlinkDetector *)

\* the blendshapes of a frame: a list of Classifications, or undefined
Undefined == [defined |-> FALSE, list |-> <<>>]
Blendshapes(list) == [defined |-> TRUE, list |-> list]
LeftName == "eyeBlinkLeft"
RightName == "eyeBlinkRight"

\* one Classifications: its categories, a map from categoryName to score
Categories(names, l, r) == [n \in names |-> IF n = LeftName THEN l ELSE r]

bothClosedEither(leftScore, rightScore) ==
  leftScore > BLINK_THRESHOLD \/ rightScore > BLINK_THRESHOLD

bothClosed(leftScore, rightScore) ==
  leftScore > BLINK_THRESHOLD /\ rightScore > BLINK_THRESHOLD

bothOpenAtClose(leftScore, rightScore) ==
  leftScore < BLINK_THRESHOLD /\ rightScore < BLINK_THRESHOLD

bothOpen(leftScore, rightScore) ==
  leftScore < OPEN_THRESHOLD /\ rightScore < OPEN_THRESHOLD

blinkAddFrameReevaluates(ph, blendshapes) ==
  LET usable == /\ blendshapes.defined
                /\ Len(blendshapes.list) > 0
                /\ {LeftName, RightName} \subseteq DOMAIN blendshapes.list[1]
      leftScore == blendshapes.list[1][LeftName]
      rightScore == blendshapes.list[1][RightName]
  IN  IF ph = "waiting" /\ usable /\ bothClosed(leftScore, rightScore)
      THEN [phase |-> "eyes_closed", result |-> FALSE]
      ELSE IF ph = "eyes_closed" /\ usable /\ bothOpen(leftScore, rightScore)
      THEN [phase |-> "detected", result |-> TRUE]
      ELSE [phase |-> ph,
            result |-> ph = "detected" /\ usable /\ bothOpen(leftScore, rightScore)]

blinkAddFrameMissingAsOpen(ph, blendshapes) ==
  LET usable == /\ blendshapes.defined
                /\ Len(blendshapes.list) > 0
                /\ {LeftName, RightName} \subseteq DOMAIN blendshapes.list[1]
      leftScore == IF usable THEN blendshapes.list[1][LeftName] ELSE 0
      rightScore == IF usable THEN blendshapes.list[1][RightName] ELSE 0
  IN  CASE ph = "detected" -> [phase |-> ph, result |-> TRUE]
        [] ph = "waiting" ->
             IF bothClosed(leftScore, rightScore)
             THEN [phase |-> "eyes_closed", result |-> FALSE]
             ELSE [phase |-> ph, result |-> FALSE]
        [] ph = "eyes_closed" ->
             IF bothOpen(leftScore, rightScore)
             THEN [phase |-> "detected", result |-> TRUE]
             ELSE [phase |-> ph, result |-> FALSE]

\* BlinkDetector.addFrame: the new phase and the returned boolean
blinkAddFrame(ph, blendshapes) ==
  IF ph = "detected" THEN [phase |-> ph, result |-> TRUE]
  ELSE IF ~blendshapes.defined \/ Len(blendshapes.list) = 0
       THEN [phase |-> ph, result |-> FALSE]
  ELSE LET shapes == blendshapes.list[1]
       IN  IF LeftName \notin DOMAIN shapes \/ RightName \notin DOMAIN shapes
           THEN [phase |-> ph, result |-> FALSE]
           ELSE LET leftScore == shapes[LeftName]
                    rightScore == shapes[RightName]
                IN  CASE ph = "waiting" ->
                           IF bothClosed(leftScore, rightScore)
                           THEN [phase |-> "eyes_closed", result |-> FALSE]
                           ELSE [phase |-> ph, result |-> FALSE]
                      [] ph = "eyes_closed" ->
                           IF bothOpen(leftScore, rightScore)
                           THEN [phase |-> "detected", result |-> TRUE]
                           ELSE [phase |-> ph, result |-> FALSE]

---------------------------------------------------------------------------
(* selectLargestFace *)

\* JavaScript's null
Null == [null |-> TRUE]

\* the faceBlendshapes argument: null, or one Classifications per face
NoBlendshapeList == [null |-> TRUE, list |-> <<>>]
BlendshapeList(list) == [null |-> FALSE, list |-> list]

\* the four silhouette landmarks of a face mesh that faceArea reads:
\* x of the two cheeks, y of forehead and chin, in hundredths
Landmarks(leftX, rightX, topY, bottomY) ==
  [left |-> leftX, right |-> rightX, top |-> topY, bottom |-> bottomY]

\* in 1/10000
faceArea(landmarks) ==
  LET width == Abs(landmarks.right - landmarks.left)
      height == Abs(landmarks.bottom - landmarks.top)
  IN  width * height

largerOrEqual(area, bestArea) == area >= bestArea

larger(area, bestArea) == area > bestArea

\* the for loop of selectLargestFace from index i on (0-based)
RECURSIVE scanFaces(_, _, _, _)
scanFaces(faces, i, bestIndex, bestArea) ==
  IF i >= Len(faces) THEN bestIndex
  ELSE LET area == faceArea(faces[i + 1])
       IN  IF larger(area, bestArea)
           THEN scanFaces(faces, i + 1, i, area)
           ELSE scanFaces(faces, i + 1, bestIndex, bestArea)

selectLargestFace(landmarkLists, blendshapeList) ==
  IF Len(landmarkLists) = 0 THEN Null
  ELSE LET bestIndex == scanFaces(landmarkLists, 0, 0, -1)
       IN  [landmarks |-> landmarkLists[bestIndex + 1],
            blendshapes |-> IF ~blendshapeList.null
                            THEN Blendshapes(<<blendshapeList.list[bestIndex + 1]>>)
                            ELSE Undefined,
            faceIndex |-> bestIndex]

---------------------------------------------------------------------------
(* The mediapipe module: getOrCreateFaceLandmarker, destroyFaceLandmarker *)

\* the module's variables and the promises and instances they refer to
Mediapipe ==
  [faceLandmarker |-> faceLandmarker, initPromise |-> initPromise,
   promises |-> promises, instances |-> instances]

MediapipeBecomes(m) ==
  /\ faceLandmarker' = m.faceLandmarker
  /\ initPromise' = m.initPromise
  /\ promises' = m.promises
  /\ instances' = m.instances

\* what an async function hands back: a promise of the module, or a promise
\* already resolved with an instance
PromiseOf(p) == [promise |-> p, value |-> 0]
ResolvedWith(instance) == [promise |-> 0, value |-> instance]

\* the async IIFE waits for FilesetResolver.forVisionTasks, then for
\* FaceLandmarker.createFromOptions
getOrCreateFaceLandmarker(m) ==
  IF m.faceLandmarker # 0
  THEN [module |-> m, returned |-> ResolvedWith(m.faceLandmarker)]
  ELSE IF m.initPromise = 0
  THEN LET p == Len(m.promises) + 1
       IN  [module |-> [m EXCEPT !.promises = Append(@, [status |-> "vision", value |-> 0]),
                                 !.initPromise = p],
            returned |-> PromiseOf(p)]
  ELSE [module |-> m, returned |-> PromiseOf(m.initPromise)]

\* the IIFE of promise p after FilesetResolver.forVisionTasks resolved
visionResolved(m, p) == [m EXCEPT !.promises[p].status = "creating"]

\* the IIFE of promise p after createFromOptions resolved
creationResolved(m, p) ==
  LET instance == Len(m.instances) + 1
  IN  [m EXCEPT !.instances = Append(@, "open"),
                !.faceLandmarker = instance,
                !.promises[p] = [status |-> "resolved", value |-> instance]]

\* either await of the IIFE of promise p threw
creationRejected(m, p) == [m EXCEPT !.promises[p].status = "rejected"]

destroyFaceLandmarker(m) ==
  IF m.faceLandmarker # 0
  THEN [m EXCEPT !.instances[m.faceLandmarker] = "closed",
                 !.faceLandmarker = 0,
                 !.initPromise = 0]
  ELSE m

---------------------------------------------------------------------------
(* The hook's data *)

CenterStep == [type |-> "center"]
HeadStep(d) == [type |-> "head", direction |-> d]
BlinkStep == [type |-> "blink"]

MsgLoading == "Loading face detection models"
MsgStartingCamera == "Starting camera"
MsgReady == "Ready! Press Start to begin verification"
MsgPressStart == "Press Start to begin verification"
MsgInitFailed == "Initialization failed"
MsgConfirmed == "Liveness Confirmed"
MsgStepComplete == "Step complete!"
MsgNoFace == "No face detected - look at the camera"
MsgTimeExpired == "Time expired - please try again"
MsgHoldStill == "Hold still - centering"
MsgCentered == "Centered!"
MsgLookStraight == "Look straight at the camera"
MsgMovementDetected == "Movement detected!"
MsgBlinkDetected == "Blink detected!"
MsgPleaseBlink == "Please blink naturally"
MsgRejected(reason) ==
  CASE reason = SuddenMovement -> "(x) Sudden movement detected - please move slowly"

getInstructionMessage(step) ==
  CASE step.type = "center" -> MsgLookStraight
    [] step.type = "blink"  -> MsgPleaseBlink
    [] step.type = "head"   ->
         CASE step.direction = "turnLeft"  -> "Turn your head LEFT slowly"
           [] step.direction = "turnRight" -> "Turn your head RIGHT slowly"
           [] step.direction = "lookUp"    -> "Look UP slowly"
           [] step.direction = "lookDown"  -> "Look DOWN slowly"

\* useState's initial value
InitialState ==
  [overallStatus |-> "loading", currentStepIndex |-> 0, stepStatus |-> "pending",
   feedbackMessage |-> MsgLoading, motionProgress |-> 0,
   isFaceDetected |-> FALSE]

NoResult == "no result"

\* elapsed saturates here: every larger value is > STEP_TIMEOUT_MS all the same
ElapsedCap == STEP_TIMEOUT_MS + 1

---------------------------------------------------------------------------
(* SpecMotion: one MotionValidator, fed directly *)

StartPose == Pose(0, 0)

\* what the head does between two frames: <<change of yaw, change of pitch>>
MotionMoves ==
  {<<0, 0>>, <<1, -1>>, <<10, -10>>, <<-10, 10>>, <<12, -12>>, <<13, 0>>, <<0, 13>>,
   <<-13, -13>>}

LastMove ==
  <<Last(fedPoses).yaw - fedPoses[Len(fedPoses) - 1].yaw,
    Last(fedPoses).pitch - fedPoses[Len(fedPoses) - 1].pitch>>

NextPoses ==
  IF fedPoses = <<>> THEN {StartPose}
  ELSE {Pose(Last(fedPoses).yaw + m[1], Last(fedPoses).pitch + m[2]) :
          m \in IF Len(fedPoses) <= MaxLead THEN MotionMoves ELSE {LastMove}}

\* the components that are run on their own
selectorVars == <<faceLandmarks, faceBlendshapes, selection>>

resourceVars == <<faceLandmarker, initPromise, promises, instances, calls, effects>>

apart == <<selectorVars, resourceVars>>

selectorIdle ==
  /\ faceLandmarks = <<>>
  /\ faceBlendshapes = NoBlendshapeList
  /\ selection = Null

\* the module as loaded, nothing mounted
resourceIdle ==
  /\ faceLandmarker = 0
  /\ initPromise = 0
  /\ promises = <<>>
  /\ instances = <<>>
  /\ calls = <<>>
  /\ effects = <<>>

apartIdle == selectorIdle /\ resourceIdle

\* what selectLargestFace and extractHeadPose hand to the tick
NoFace == [face |-> FALSE, pose |-> StartPose, blendshapes |-> Undefined]
Selected(pose, blendshapes) == [face |-> TRUE, pose |-> pose, blendshapes |-> blendshapes]

hookIdle ==
  /\ state = InitialState
  /\ isRunningRef = FALSE
  /\ hasAdvanced = FALSE
  /\ centerFrames = 0
  /\ elapsed = ElapsedCap
  /\ timers = <<>>
  /\ initPc = "model"
  /\ validated = <<>>
  /\ ev = "new"
  /\ seen = NoFace

hookVars == <<state, challengeSequence, currentStepRef, isRunningRef, hasAdvanced,
              centerFrames, elapsed, timers, initPc, validated, ev, seen>>

InitMotion ==
  /\ hookIdle
  /\ challengeSequence \in {<<HeadStep(d)>> : d \in Directions}
  /\ currentStepRef = 0
  /\ poseHistory = <<>>
  /\ phase = "waiting"
  /\ fedPoses = <<>>
  /\ fedScores = <<>>
  /\ result = NoResult
  /\ apartIdle

MotionAddFrame(pose) ==
  /\ Len(fedPoses) < MaxFed
  /\ LET r == addFrame(poseHistory, pose, challengeSequence[currentStepRef + 1].direction)
     IN  /\ poseHistory' = r.poseHistory
         /\ result' = r.result
  /\ fedPoses' = Append(fedPoses, pose)
  /\ UNCHANGED <<hookVars, phase, fedScores, apart>>

\* MotionValidator.reset
MotionReset ==
  /\ fedPoses # <<>>
  /\ poseHistory' = <<>>
  /\ fedPoses' = <<>>
  /\ result' = NoResult
  /\ UNCHANGED <<hookVars, phase, fedScores, apart>>

NextMotion ==
  \/ \E pose \in NextPoses : MotionAddFrame(pose)
  \/ MotionReset

SpecMotion == InitMotion /\ [][NextMotion]_vars

---------------------------------------------------------------------------
(* SpecBlink: one BlinkDetector, fed directly *)

Scores == {10, 20, 40, 50}

BlinkInputs ==
  {Undefined, Blendshapes(<<>>)}
    \cup {Blendshapes(<<Categories({LeftName, RightName}, l, r)>>) : l \in Scores, r \in Scores}
    \cup {Blendshapes(<<Categories({LeftName}, 50, 50)>>),
          Blendshapes(<<Categories({RightName}, 50, 50)>>)}

InitBlink ==
  /\ hookIdle
  /\ challengeSequence = <<BlinkStep>>
  /\ currentStepRef = 0
  /\ poseHistory = <<>>
  /\ phase = "waiting"
  /\ fedPoses = <<>>
  /\ fedScores = <<>>
  /\ result = NoResult
  /\ apartIdle

BlinkAddFrame(blendshapes) ==
  /\ Len(fedScores) < MaxBlinkFrames
  /\ LET r == blinkAddFrame(phase, blendshapes)
     IN  /\ phase' = r.phase
         /\ result' = r.result
  /\ fedScores' = Append(fedScores, blendshapes)
  /\ UNCHANGED <<hookVars, poseHistory, fedPoses, apart>>

\* BlinkDetector.reset
BlinkReset ==
  /\ fedScores # <<>>
  /\ phase' = "waiting"
  /\ fedScores' = <<>>
  /\ result' = NoResult
  /\ UNCHANGED <<hookVars, poseHistory, fedPoses, apart>>

NextBlink ==
  \/ \E blendshapes \in BlinkInputs : BlinkAddFrame(blendshapes)
  \/ BlinkReset

SpecBlink == InitBlink /\ [][NextBlink]_vars

---------------------------------------------------------------------------
(* SpecSelect: selectLargestFace, applied to one detection result after another *)

\* faces of area 0.10 (twice, one with the cheeks in the other order), 0.25
\* (twice) and 0
FaceMeshes ==
  {Landmarks(30, 50, 10, 60), Landmarks(70, 50, 20, 70),
   Landmarks(20, 70, 10, 60), Landmarks(10, 60, 40, 90),
   Landmarks(40, 40, 10, 60)}

FaceLists == UNION {[1..n -> FaceMeshes] : n \in 0..MaxFaces}

\* the blendshapes of face i (0-based) of a result, told apart by their scores
blendshapesOfFace(i) == Categories({LeftName, RightName}, 10 * i, 10 * i + 5)

InitSelect ==
  /\ hookIdle
  /\ challengeSequence = <<CenterStep>>
  /\ currentStepRef = 0
  /\ poseHistory = <<>>
  /\ phase = "waiting"
  /\ fedPoses = <<>>
  /\ fedScores = <<>>
  /\ result = NoResult
  /\ faceLandmarks = <<>>
  /\ faceBlendshapes = NoBlendshapeList
  /\ selection = selectLargestFace(<<>>, NoBlendshapeList)
  /\ resourceIdle

\* landmarker.detectForVideo returned, and selectLargestFace is applied
Select(landmarkLists, blendshapeList) ==
  /\ faceLandmarks' = landmarkLists
  /\ faceBlendshapes' = blendshapeList
  /\ selection' = selectLargestFace(landmarkLists, blendshapeList)
  /\ UNCHANGED <<hookVars, poseHistory, phase, fedPoses, fedScores, result,
                 resourceVars>>

NextSelect ==
  \E landmarkLists \in FaceLists :
    \E blendshapeList \in
         {NoBlendshapeList,
          BlendshapeList([i \in 1..Len(landmarkLists) |-> blendshapesOfFace(i - 1)])} :
      Select(landmarkLists, blendshapeList)

SpecSelect == InitSelect /\ [][NextSelect]_vars

---------------------------------------------------------------------------
(* SpecSingleton: the mediapipe module called by any client *)

\* the hook, the validators and the selector, not run
restIdle ==
  /\ hookIdle
  /\ challengeSequence = <<CenterStep>>
  /\ currentStepRef = 0
  /\ poseHistory = <<>>
  /\ phase = "waiting"
  /\ fedPoses = <<>>
  /\ fedScores = <<>>
  /\ result = NoResult
  /\ selectorIdle

rest == <<state, challengeSequence, currentStepRef, isRunningRef, hasAdvanced,
          centerFrames, elapsed, timers, initPc, validated, seen, poseHistory,
          phase, fedPoses, fedScores, result, selectorVars>>

InitSingleton == restIdle /\ resourceIdle

\* a client calls getOrCreateFaceLandmarker()
ClientGet ==
  /\ Len(calls) < MaxCalls
  /\ LET r == getOrCreateFaceLandmarker(Mediapipe)
     IN  /\ MediapipeBecomes(r.module)
         /\ calls' = Append(calls, r.returned)
  /\ ev' = "get"
  /\ UNCHANGED <<effects, rest>>

\* a client calls destroyFaceLandmarker()
ClientDestroy ==
  /\ MediapipeBecomes(destroyFaceLandmarker(Mediapipe))
  /\ ev' = "destroy"
  /\ UNCHANGED <<calls, effects, rest>>

VisionResolved(p) ==
  /\ promises[p].status = "vision"
  /\ MediapipeBecomes(visionResolved(Mediapipe, p))
  /\ ev' = "visionResolved"
  /\ UNCHANGED <<calls, effects, rest>>

CreationResolved(p) ==
  /\ promises[p].status = "creating"
  /\ MediapipeBecomes(creationResolved(Mediapipe, p))
  /\ ev' = "creationResolved"
  /\ UNCHANGED <<calls, effects, rest>>

CreationRejected(p) ==
  /\ promises[p].status \in {"vision", "creating"}
  /\ MediapipeBecomes(creationRejected(Mediapipe, p))
  /\ ev' = "creationRejected"
  /\ UNCHANGED <<calls, effects, rest>>

\* the steps of the creations in flight
Creation ==
  \E p \in DOMAIN promises :
    VisionResolved(p) \/ CreationResolved(p) \/ CreationRejected(p)

NextSingleton ==
  \/ ClientGet
  \/ ClientDestroy
  \/ Creation

SpecSingleton == InitSingleton /\ [][NextSingleton]_vars

---------------------------------------------------------------------------
(* SpecLifecycle: the effect of useFaceLiveness, mounted and unmounted *)

\* One run of the effect: whether its component is still mounted, where
\* init() stands, what init() awaits from getOrCreateFaceLandmarker(),
\* landmarkerRef.current, the local variable stream with the state of the
\* camera stream it holds, and whether a requestAnimationFrame callback of
\* detectLoop is scheduled.
Effect(returned) ==
  [mounted |-> TRUE, pc |-> "model", awaiting |-> returned, landmarkerRef |-> 0,
   stream |-> "null", raf |-> FALSE]

InitLifecycle == restIdle /\ resourceIdle

\* the component mounts: the effect runs init() up to its first await
Mount ==
  /\ Len(effects) < MaxMounts
  /\ \A i \in DOMAIN effects : ~effects[i].mounted
  /\ LET r == getOrCreateFaceLandmarker(Mediapipe)
     IN  /\ MediapipeBecomes(r.module)
         /\ effects' = Append(effects, Effect(r.returned))
  /\ ev' = "mount"
  /\ UNCHANGED <<calls, rest>>

\* init(): the awaited getOrCreateFaceLandmarker() resolved; getUserMedia is called
ModelObtained(i) ==
  LET e == effects[i]
      got == IF e.awaiting.promise = 0 THEN e.awaiting.value
             ELSE promises[e.awaiting.promise].value
  IN  /\ e.pc = "model"
      /\ e.awaiting.promise # 0 => promises[e.awaiting.promise].status = "resolved"
      /\ effects' = [effects EXCEPT ![i] = [e EXCEPT !.landmarkerRef = got,
                                                     !.pc = "camera"]]
      /\ ev' = "modelObtained"
      /\ UNCHANGED <<faceLandmarker, initPromise, promises, instances, calls, rest>>

\* init(): the awaited getOrCreateFaceLandmarker() rejected; the catch runs
ModelFailed(i) ==
  LET e == effects[i]
  IN  /\ e.pc = "model"
      /\ e.awaiting.promise # 0
      /\ promises[e.awaiting.promise].status = "rejected"
      /\ effects' = [effects EXCEPT ![i] = [e EXCEPT !.pc = "failed"]]
      /\ ev' = "modelFailed"
      /\ UNCHANGED <<faceLandmarker, initPromise, promises, instances, calls, rest>>

\* init(): getUserMedia resolved.  With videoRef.current set the video is
\* awaited next; without it (the component is gone) detectLoop() is called
\* at once, finds no video and schedules itself.
CameraGranted(i) ==
  LET e == effects[i]
  IN  /\ e.pc = "camera"
      /\ effects' = [effects EXCEPT ![i] =
                       IF e.mounted
                       THEN [e EXCEPT !.stream = "live", !.pc = "video"]
                       ELSE [e EXCEPT !.stream = "live", !.pc = "looping",
                                      !.raf = TRUE]]
      /\ ev' = "cameraGranted"
      /\ UNCHANGED <<faceLandmarker, initPromise, promises, instances, calls, rest>>

\* init(): getUserMedia rejected; the catch runs
CameraDenied(i) ==
  LET e == effects[i]
  IN  /\ e.pc = "camera"
      /\ effects' = [effects EXCEPT ![i] = [e EXCEPT !.pc = "failed"]]
      /\ ev' = "cameraDenied"
      /\ UNCHANGED <<faceLandmarker, initPromise, promises, instances, calls, rest>>

\* init(): the video plays; detectLoop() is called and schedules itself
VideoPlays(i) ==
  LET e == effects[i]
  IN  /\ e.pc = "video"
      /\ effects' = [effects EXCEPT ![i] = [e EXCEPT !.pc = "looping", !.raf = TRUE]]
      /\ ev' = "videoPlays"
      /\ UNCHANGED <<faceLandmarker, initPromise, promises, instances, calls, rest>>

\* init(): video.play() rejected; the catch runs
VideoFails(i) ==
  LET e == effects[i]
  IN  /\ e.pc = "video"
      /\ effects' = [effects EXCEPT ![i] = [e EXCEPT !.pc = "failed"]]
      /\ ev' = "videoFails"
      /\ UNCHANGED <<faceLandmarker, initPromise, promises, instances, calls, rest>>

\* the effect's cleanup, but for destroyFaceLandmarker()
cleanup(e) ==
  [e EXCEPT !.mounted = FALSE,
            !.raf = FALSE,
            !.stream = IF @ = "live" THEN "stopped" ELSE @]

\* the component unmounts: the cleanup of the effect runs
Unmount(i) ==
  /\ effects[i].mounted
  /\ effects' = [effects EXCEPT ![i] = cleanup(effects[i])]
  /\ MediapipeBecomes(destroyFaceLandmarker(Mediapipe))
  /\ ev' = "unmount"
  /\ UNCHANGED <<calls, rest>>

NextLifecycle ==
  \/ Mount
  \/ \E i \in DOMAIN effects :
       \/ ModelObtained(i)
       \/ ModelFailed(i)
       \/ CameraGranted(i)
       \/ CameraDenied(i)
       \/ VideoPlays(i)
       \/ VideoFails(i)
       \/ Unmount(i)
  \/ Creation

SpecLifecycle == InitLifecycle /\ [][NextLifecycle]_vars

---------------------------------------------------------------------------
(* The hook useFaceLiveness *)

\* [...directions].sort(() => Math.random() - 0.5): the four directions in any order
Shuffles ==
  {shuffled \in [1..4 -> Directions] :
     \A i, j \in 1..4 : i # j => shuffled[i] # shuffled[j]}

generateChallengeSequenceRepeats(shuffled) ==
  <<CenterStep, HeadStep(shuffled[1]), BlinkStep, HeadStep(shuffled[2]), BlinkStep,
    HeadStep(shuffled[1]), BlinkStep>>

\* LivenessCam's generateChallengeSequence, given the outcome of the shuffle
generateChallengeSequence(shuffled) ==
  <<CenterStep, HeadStep(shuffled[1]), BlinkStep, HeadStep(shuffled[2]), BlinkStep,
    HeadStep(shuffled[3]), BlinkStep>>

\* the shuffle the sessions of Spec are run with; the first three directions
\* are asked for, one on the yaw axis and two on the pitch axis
SessionShuffles == {<<"turnLeft", "lookUp", "lookDown", "turnRight">>}

\* The refs and the state of the hook, gathered so that a handler is one
\* function from their values before to their values after.
Hook ==
  [state |-> state, currentStepRef |-> currentStepRef, isRunningRef |-> isRunningRef,
   hasAdvanced |-> hasAdvanced, centerFrames |-> centerFrames, elapsed |-> elapsed,
   poseHistory |-> poseHistory, phase |-> phase, timers |-> timers,
   validated |-> validated]

Becomes(h) ==
  /\ state' = h.state
  /\ currentStepRef' = h.currentStepRef
  /\ isRunningRef' = h.isRunningRef
  /\ hasAdvanced' = h.hasAdvanced
  /\ centerFrames' = h.centerFrames
  /\ elapsed' = h.elapsed
  /\ poseHistory' = h.poseHistory
  /\ phase' = h.phase
  /\ timers' = h.timers
  /\ validated' = h.validated

\* setState(prev => prev.stepStatus === 'active' ? {...prev, ...} : prev)
whileActive(s, updated) == IF s.stepStatus = "active" THEN updated ELSE s

advanceStep(h) ==
  IF h.hasAdvanced THEN h
  ELSE
    LET nextIndex == h.currentStepRef + 1
        h1 == [h EXCEPT !.hasAdvanced = TRUE,
                        !.validated = Append(@, h.currentStepRef)]
    IN  IF nextIndex >= Len(challengeSequence)
        THEN [h1 EXCEPT !.state = [@ EXCEPT !.stepStatus = "success",
                                            !.overallStatus = "success",
                                            !.feedbackMessage = MsgConfirmed,
                                            !.motionProgress = FULL],
                        !.isRunningRef = FALSE]
        ELSE [h1 EXCEPT !.state = [@ EXCEPT !.stepStatus = "success",
                                            !.feedbackMessage = MsgStepComplete,
                                            !.motionProgress = FULL],
                        !.timers = Append(@, [nextIndex |-> nextIndex,
                                              remaining |-> PAUSE_MS])]

pauseOverKeepsValidators(h, nextIndex) ==
  [h EXCEPT !.currentStepRef = nextIndex,
            !.hasAdvanced = FALSE,
            !.centerFrames = 0,
            !.elapsed = 0,
            !.state = [@ EXCEPT
                         !.currentStepIndex = nextIndex,
                         !.stepStatus = "active",
                         !.feedbackMessage =
                            getInstructionMessage(challengeSequence[nextIndex + 1]),
                         !.motionProgress = 0]]

\* the callback advanceStep hands to setTimeout
pauseOver(h, nextIndex) ==
  [h EXCEPT !.currentStepRef = nextIndex,
            !.hasAdvanced = FALSE,
            !.poseHistory = <<>>,
            !.phase = "waiting",
            !.centerFrames = 0,
            !.elapsed = 0,
            !.state = [@ EXCEPT
                         !.currentStepIndex = nextIndex,
                         !.stepStatus = "active",
                         !.feedbackMessage =
                            getInstructionMessage(challengeSequence[nextIndex + 1]),
                         !.motionProgress = 0]]

failStepKeepsRunning(h, reason) ==
  [h EXCEPT !.state = [@ EXCEPT !.stepStatus = "failed",
                                !.feedbackMessage = reason,
                                !.motionProgress = 0],
            !.isRunningRef = FALSE]

failStep(h, reason) ==
  [h EXCEPT !.state = [@ EXCEPT !.stepStatus = "failed",
                                !.overallStatus = "failed",
                                !.feedbackMessage = reason,
                                !.motionProgress = 0],
            !.isRunningRef = FALSE]

startChallenge(h) ==
  [h EXCEPT !.currentStepRef = 0,
            !.hasAdvanced = FALSE,
            !.poseHistory = <<>>,
            !.phase = "waiting",
            !.centerFrames = 0,
            !.elapsed = 0,
            !.isRunningRef = TRUE,
            !.validated = <<>>,
            !.state = [overallStatus |-> "running", currentStepIndex |-> 0,
                       stepStatus |-> "active",
                       feedbackMessage |-> getInstructionMessage(challengeSequence[1]),
                       motionProgress |-> 0, isFaceDetected |-> FALSE]]

reset(h) ==
  [h EXCEPT !.currentStepRef = 0,
            !.hasAdvanced = FALSE,
            !.poseHistory = <<>>,
            !.phase = "waiting",
            !.centerFrames = 0,
            !.isRunningRef = FALSE,
            !.validated = <<>>,
            !.state = [overallStatus |-> "ready", currentStepIndex |-> 0,
                       stepStatus |-> "pending",
                       feedbackMessage |-> MsgPressStart,
                       motionProgress |-> 0, isFaceDetected |-> FALSE]]

timedOutLate(h) == h.elapsed > STEP_TIMEOUT_MS + PAUSE_MS /\ ~h.hasAdvanced

timedOutDespiteAdvance(h) == h.elapsed > STEP_TIMEOUT_MS

timedOut(h) == h.elapsed > STEP_TIMEOUT_MS /\ ~h.hasAdvanced

isCentered(pose) ==
  Abs(pose.yaw) < CENTER_YAW_THRESHOLD /\ Abs(pose.pitch) < CENTER_PITCH_THRESHOLD

centerDispatchCumulative(h, pose) ==
  IF isCentered(pose)
  THEN LET frames == h.centerFrames + 1
           progress == Min(FULL, (frames * FULL) \div CENTER_HOLD_FRAMES)
           h1 == [h EXCEPT !.centerFrames = frames,
                           !.state = whileActive(@,
                              [@ EXCEPT !.motionProgress = progress,
                                        !.feedbackMessage =
                                           IF progress < FULL THEN MsgHoldStill
                                                              ELSE MsgCentered])]
       IN  IF frames >= CENTER_HOLD_FRAMES THEN advanceStep(h1) ELSE h1
  ELSE [h EXCEPT !.state = whileActive(@,
                    [@ EXCEPT !.feedbackMessage = MsgLookStraight])]

centerDispatch(h, pose) ==
  IF isCentered(pose)
  THEN LET frames == h.centerFrames + 1
           progress == Min(FULL, (frames * FULL) \div CENTER_HOLD_FRAMES)
           h1 == [h EXCEPT !.centerFrames = frames,
                           !.state = whileActive(@,
                              [@ EXCEPT !.motionProgress = progress,
                                        !.feedbackMessage =
                                           IF progress < FULL THEN MsgHoldStill
                                                              ELSE MsgCentered])]
       IN  IF frames >= CENTER_HOLD_FRAMES THEN advanceStep(h1) ELSE h1
  ELSE [h EXCEPT !.centerFrames = 0,
                 !.state = whileActive(@,
                    [@ EXCEPT !.motionProgress = 0,
                              !.feedbackMessage = MsgLookStraight])]

headDispatch(h, pose, step) ==
  LET r == addFrame(h.poseHistory, pose, step.direction)
      motionResult == r.result
      h1 == [h EXCEPT !.poseHistory = r.poseHistory]
  IN  IF motionResult.rejectionReason # NoReason
      THEN failStep(h1, MsgRejected(motionResult.rejectionReason))
      ELSE LET h2 == [h1 EXCEPT !.state = whileActive(@,
                        [@ EXCEPT !.motionProgress = motionResult.progress,
                                  !.feedbackMessage =
                                     IF motionResult.isValid
                                     THEN MsgMovementDetected
                                     ELSE getInstructionMessage(step)])]
           IN  IF motionResult.isValid THEN advanceStep(h2) ELSE h2

blinkDispatch(h, blendshapes) ==
  IF blendshapes.defined
  THEN LET r == blinkAddFrame(h.phase, blendshapes)
           h1 == [h EXCEPT !.phase = r.phase]
       IN  IF r.result
           THEN advanceStep([h1 EXCEPT !.state = whileActive(@,
                               [@ EXCEPT !.motionProgress = FULL,
                                         !.feedbackMessage = MsgBlinkDetected])])
           ELSE [h1 EXCEPT !.state = whileActive(@,
                               [@ EXCEPT !.feedbackMessage = MsgPleaseBlink])]
  ELSE h

noFaceRestartsStep(h) ==
  [h EXCEPT !.centerFrames = 0,
            !.poseHistory = <<>>,
            !.phase = "waiting",
            !.state = [@ EXCEPT
                   !.isFaceDetected = FALSE,
                   !.motionProgress = 0,
                   !.feedbackMessage =
                      IF h.isRunningRef /\ h.state.stepStatus = "active"
                      THEN MsgNoFace ELSE @]]

\* detectLoop when selectLargestFace returned null
noFace(h) ==
  [h EXCEPT !.state = [@ EXCEPT
                   !.isFaceDetected = FALSE,
                   !.feedbackMessage =
                      IF h.isRunningRef /\ h.state.stepStatus = "active"
                      THEN MsgNoFace ELSE @]]

\* one run of detectLoop that got a detection result
detectLoop(h, selected) ==
  IF ~selected.face
  THEN noFace(h)
  ELSE
    LET h1 == [h EXCEPT !.state = [@ EXCEPT !.isFaceDetected = TRUE]]
    IN  IF ~h.isRunningRef THEN h1
        ELSE IF timedOut(h) THEN failStep(h1, MsgTimeExpired)
        ELSE
          LET step == challengeSequence[h.currentStepRef + 1]
          IN  CASE step.type = "center" -> centerDispatch(h1, selected.pose)
                [] step.type = "head"   -> headDispatch(h1, selected.pose, step)
                [] step.type = "blink"  -> blinkDispatch(h1, selected.blendshapes)

---------------------------------------------------------------------------
(* Spec: the hook and what drives it *)

\* poses offered to a center step: centered, yaw at the center threshold,
\* pitch at the center threshold
CenterPoses == {Pose(0, 0), Pose(25, 0), Pose(0, 20)}

\* how far the head moves on the challenge axis, in the asked direction,
\* between two frames of a head step: slow, too fast
HeadMoves == {10, 20}

\* The poses a tick may see.  A head step starts from StartPose and then
\* moves on the challenge axis, too fast at most once in a window; SpecMotion
\* feeds the validator the other moves.
TickPoses ==
  LET step == challengeSequence[currentStepRef + 1]
  IN  IF step.type = "center" THEN CenterPoses
      ELSE IF step.type = "blink" \/ poseHistory = <<>> THEN {StartPose}
      ELSE LET by(m) == m * getExpectedSign(step.direction)
               moves == IF hasJump(poseHistory, getAxis(step.direction))
                        THEN {m \in HeadMoves : m <= MAX_FRAME_DELTA}
                        ELSE HeadMoves
           IN  {IF getAxis(step.direction) = "yaw"
                THEN Pose(Last(poseHistory).yaw + by(m), Last(poseHistory).pitch)
                ELSE Pose(Last(poseHistory).yaw, Last(poseHistory).pitch + by(m)) :
                  m \in moves}

\* The blendshapes a tick may see: none, both eyes closed, both open, a wink.
\* Only a blink step reads them.
TickBlendshapes ==
  IF challengeSequence[currentStepRef + 1].type = "blink"
  THEN {Undefined,
        Blendshapes(<<Categories({LeftName, RightName}, 50, 50)>>),
        Blendshapes(<<Categories({LeftName, RightName}, 10, 10)>>),
        Blendshapes(<<Categories({LeftName, RightName}, 50, 10)>>)}
  ELSE {Undefined}

Selections ==
  {NoFace} \cup {Selected(p, b) : p \in TickPoses, b \in TickBlendshapes}

\* the bounds on the counters a tick may grow
WithinBounds(selected) ==
  \/ ~selected.face
  \/ ~isRunningRef
  \/ timedOut(Hook)
  \/ LET step == challengeSequence[currentStepRef + 1]
     IN  /\ step.type = "center" /\ isCentered(selected.pose)
            => centerFrames < MaxCenterFrames
         /\ step.type = "head" => Len(poseHistory) < MaxHeadFrames

Init ==
  /\ hookIdle
  /\ challengeSequence \in {generateChallengeSequence(s) : s \in SessionShuffles}
  /\ currentStepRef = 0
  /\ poseHistory = <<>>
  /\ phase = "waiting"
  /\ fedPoses = <<>>
  /\ fedScores = <<>>
  /\ result = NoResult
  /\ apartIdle

unfed == <<fedPoses, fedScores, result, apart>>

\* init(): getOrCreateFaceLandmarker() resolved
ModelLoaded ==
  /\ initPc = "model"
  /\ initPc' = "camera"
  /\ state' = [state EXCEPT !.feedbackMessage = MsgStartingCamera]
  /\ ev' = "modelLoaded"
  /\ seen' = NoFace
  /\ UNCHANGED <<challengeSequence, currentStepRef, isRunningRef, hasAdvanced,
                 centerFrames, elapsed, poseHistory, phase, timers, validated,
                 unfed>>

\* init(): the camera plays, the state is ready and detectLoop is started
CameraStarted ==
  /\ initPc = "camera"
  /\ initPc' = "looping"
  /\ state' = [state EXCEPT !.overallStatus = "ready", !.feedbackMessage = MsgReady]
  /\ ev' = "cameraStarted"
  /\ seen' = NoFace
  /\ UNCHANGED <<challengeSequence, currentStepRef, isRunningRef, hasAdvanced,
                 centerFrames, elapsed, poseHistory, phase, timers, validated,
                 unfed>>

\* init(): the model or the camera could not be had
InitFailed ==
  /\ initPc \in {"model", "camera"}
  /\ initPc' = "failed"
  /\ state' = [state EXCEPT !.overallStatus = "failed", !.feedbackMessage = MsgInitFailed]
  /\ ev' = "initFailed"
  /\ seen' = NoFace
  /\ UNCHANGED <<challengeSequence, currentStepRef, isRunningRef, hasAdvanced,
                 centerFrames, elapsed, poseHistory, phase, timers, validated,
                 unfed>>

StartChallenge ==
  /\ Len(timers) < MaxPending
  /\ Becomes(startChallenge(Hook))
  /\ ev' = "start"
  /\ seen' = NoFace
  /\ UNCHANGED <<challengeSequence, initPc, unfed>>

Reset ==
  /\ Len(timers) < MaxPending
  /\ Becomes(reset(Hook))
  /\ ev' = "reset"
  /\ seen' = NoFace
  /\ UNCHANGED <<challengeSequence, initPc, unfed>>

\* requestAnimationFrame runs detectLoop
Tick(selected) ==
  /\ initPc = "looping"
  /\ WithinBounds(selected)
  /\ Becomes(detectLoop(Hook, selected))
  /\ ev' = IF selected.face THEN "tick" ELSE "noFace"
  /\ seen' = selected
  /\ UNCHANGED <<challengeSequence, initPc, unfed>>

\* the oldest setTimeout callback runs, its delay being over
TimerFires ==
  /\ timers # <<>>
  /\ timers[1].remaining = 0
  /\ Becomes(pauseOver([Hook EXCEPT !.timers = Tail(@)], timers[1].nextIndex))
  /\ ev' = "timer"
  /\ seen' = NoFace
  /\ UNCHANGED <<challengeSequence, initPc, unfed>>

TimeSteps == {2500}

\* the clock moves on
PassTime(d) ==
  /\ elapsed < ElapsedCap \/ \E i \in DOMAIN timers : timers[i].remaining > 0
  /\ elapsed' = Min(ElapsedCap, elapsed + d)
  /\ timers' = [i \in DOMAIN timers |->
                  [timers[i] EXCEPT !.remaining = Max(0, @ - d)]]
  /\ ev' = "time"
  /\ seen' = NoFace
  /\ UNCHANGED <<state, challengeSequence, currentStepRef, isRunningRef, hasAdvanced,
                 centerFrames, poseHistory, phase, initPc, validated, unfed>>

Next ==
  \/ ModelLoaded
  \/ CameraStarted
  \/ InitFailed
  \/ StartChallenge
  \/ Reset
  \/ \E selected \in Selections : Tick(selected)
  \/ TimerFires
  \/ \E d \in TimeSteps : PassTime(d)

Spec == Init /\ [][Next]_vars

---------------------------------------------------------------------------
(* SpecSequence: a session of LivenessCam with any sequence it may generate,
   in front of a camera that sees no face *)

\* useState(() => generateChallengeSequence()), then the hook as constructed
InitSequence ==
  /\ hookIdle
  /\ challengeSequence \in {generateChallengeSequence(s) : s \in Shuffles}
  /\ currentStepRef = 0
  /\ poseHistory = <<>>
  /\ phase = "waiting"
  /\ fedPoses = <<>>
  /\ fedScores = <<>>
  /\ result = NoResult
  /\ apartIdle

NextSequence ==
  \/ ModelLoaded
  \/ CameraStarted
  \/ InitFailed
  \/ StartChallenge
  \/ Reset
  \/ Tick(NoFace)
  \/ \E d \in TimeSteps : PassTime(d)

SpecSequence == InitSequence /\ [][NextSequence]_vars

---------------------------------------------------------------------------
(* What the claims speak of, written from their own words *)

\* the direction a SpecMotion run feeds the validator with
FedDirection == challengeSequence[1].direction

AxisValueOf(pose, d) ==
  IF d \in {"turnLeft", "turnRight"} THEN pose.yaw ELSE pose.pitch

SignOf(d) == IF d \in {"turnLeft", "lookDown"} THEN 1 ELSE -1

MinimumOf(d) == IF d \in {"turnLeft", "turnRight"} THEN 30 ELSE 18

DeltaOf(seq, i, d) == AxisValueOf(seq[i + 1], d) - AxisValueOf(seq[i], d)

JumpIn(seq, d) == \E i \in 1..(Len(seq) - 1) : Abs(DeltaOf(seq, i, d)) > 12

AllBelow(seq, d) == \A i \in 1..(Len(seq) - 1) : Abs(DeltaOf(seq, i, d)) < 12

DisplacementOf(seq, d) ==
  (AxisValueOf(seq[Len(seq)], d) - AxisValueOf(seq[1], d)) * SignOf(d)

\* at least 55% of the consecutive deltas have the expected sign
EnoughCorrect(seq, d) ==
  Cardinality({i \in 1..(Len(seq) - 1) : DeltaOf(seq, i, d) * SignOf(d) > 0}) * 100
    >= 55 * (Len(seq) - 1)

\* the last 18 poses fed
CurrentWindow ==
  IF Len(fedPoses) > 18
  THEN [i \in 1..18 |-> fedPoses[Len(fedPoses) - 18 + i]]
  ELSE fedPoses

---------------------------------------------------------------------------
(* Claims on the hook, under Spec *)

Running == state.overallStatus = "running"

\* the step the status object points at
CurrentStep == challengeSequence[state.currentStepIndex + 1]

\* the steps that met their validation condition since the last startChallenge()
ValidatedSteps == {validated[i] : i \in DOMAIN validated}

\* the last step of Spec was a run of detectLoop that selected a face
FaceTick == ev' = "tick"

\* the last step of Spec was a run of detectLoop, with a face or without
AnyTick == ev' \in {"tick", "noFace"}

FailedWith(s, message) ==
  /\ s.overallStatus = "failed"
  /\ s.stepStatus = "failed"
  /\ s.feedbackMessage = message

\* C1, read with the 800 ms pause counted as the current step being complete:
\* while overallStatus is running, the step at the current index is active
\* (or in its success pause), and every step with a lower index has met its
\* validation condition in this session.
C1_LowerStepsCompleted ==
  Running =>
    /\ state.stepStatus \in {"active", "success"}
    /\ \A i \in 0..(state.currentStepIndex - 1) : i \in ValidatedSteps

\* C2: overallStatus is success only after every step, from index 0 to the
\* last index in order, was validated since the most recent startChallenge().
C2_SuccessOnlyAfterEveryStep ==
  state.overallStatus = "success" =>
    validated = [i \in 1..Len(challengeSequence) |-> i - 1]

\* C3 as stated: a tick that finds the session running with an active step
\* started more than 5000 ms ago fails the session with the timeout message,
\* whether the tick selects a face or not.
C3_AnyTickTimesOut ==
  [][(AnyTick /\ Running /\ state.stepStatus = "active" /\ elapsed > 5000)
       => FailedWith(state', MsgTimeExpired)]_vars

\* C3 amended: the first tick that selects a face and finds the session
\* running with an active step started more than 5000 ms ago fails the
\* session with the timeout message and leaves the step index alone; up to
\* 5000 ms no tick reports a timeout.
C3_FaceTickTimesOut ==
  [][/\ (FaceTick /\ Running /\ state.stepStatus = "active" /\ elapsed > 5000)
          => /\ FailedWith(state', MsgTimeExpired)
             /\ state'.currentStepIndex = state.currentStepIndex
             /\ ~isRunningRef'
     /\ (AnyTick /\ elapsed <= 5000) => state'.feedbackMessage # MsgTimeExpired
    ]_vars

\* a tick with a face has just failed an active step on its timeout
C3_Witness ==
  /\ ev = "tick"
  /\ FailedWith(state, MsgTimeExpired)
  /\ elapsed > 5000
  /\ ~isRunningRef

\* C4: once a jump rejection or a timeout has failed the session, the overall
\* status, the step status, the step index and the message stay as they are
\* under every tick and every timer callback, until startChallenge() or reset().
C4_FailedIsTerminal ==
  [][(/\ \/ FailedWith(state, MsgTimeExpired)
         \/ FailedWith(state, MsgRejected(SuddenMovement))
      /\ ev' \notin {"start", "reset"})
       => /\ FailedWith(state', state.feedbackMessage)
          /\ state'.currentStepIndex = state.currentStepIndex]_vars

\* the tick fed the validator a pose that differs from the pose fed before it
\* by more than 0.12 on the axis of the head step
JumpFed ==
  /\ FaceTick
  /\ Running /\ state.stepStatus = "active"
  /\ CurrentStep.type = "head"
  /\ poseHistory # <<>>
  /\ poseHistory' = Append(poseHistory, Last(poseHistory'))
  /\ Abs(AxisValueOf(Last(poseHistory'), CurrentStep.direction)
         - AxisValueOf(Last(poseHistory), CurrentStep.direction)) > 12

\* C5 as stated: on the very tick that feeds such a pose to an active head
\* step the session fails with the rejection, however many poses were fed.
C5_JumpFailsSameTick ==
  [][JumpFed => FailedWith(state', MsgRejected(SuddenMovement))]_vars

\* C5 amended: a tick that feeds an active head step a pose, so that the
\* validator then holds at least 6 poses with a pair more than 0.12 apart on
\* the challenge axis, fails the session on that tick with the rejection and
\* leaves the step index alone; with fewer than 6 poses held the tick fails
\* nothing.
C5_JumpFailsAtSixPoses ==
  [][(/\ FaceTick
      /\ Running /\ state.stepStatus = "active"
      /\ CurrentStep.type = "head"
      /\ poseHistory' # poseHistory)
       => IF Len(poseHistory') >= 6
          THEN JumpIn(poseHistory', CurrentStep.direction)
                 => /\ FailedWith(state', MsgRejected(SuddenMovement))
                    /\ state'.currentStepIndex = state.currentStepIndex
                    /\ ~isRunningRef'
          ELSE state'.overallStatus = "running" /\ state'.stepStatus = "active"
    ]_vars

\* a tick has just failed a head step on a jump fed before the sixth pose
C5_Witness ==
  /\ ev = "tick"
  /\ FailedWith(state, MsgRejected(SuddenMovement))
  /\ CurrentStep.type = "head"
  /\ ~hasAdvanced
  /\ Len(poseHistory) = 6
  /\ JumpIn(poseHistory, CurrentStep.direction)
  /\ Abs(DeltaOf(poseHistory, 5, CurrentStep.direction)) <= 12

\* C14: startChallenge() and reset(), in any state, re-initialize the session
\* (step index 0, empty pose window, blink phase waiting, hold counter 0), and
\* a timer callback that runs afterwards was scheduled by the new session: it
\* ends the pause of the step that this session validated last.
C14_RestartFromScratch ==
  [][/\ ev' \in {"start", "reset"} =>
          /\ state'.currentStepIndex = 0 /\ currentStepRef' = 0
          /\ poseHistory' = <<>> /\ phase' = "waiting" /\ centerFrames' = 0
          /\ validated' = <<>>
     /\ ev' = "timer" =>
          /\ hasAdvanced
          /\ validated # <<>>
          /\ state'.currentStepIndex = Last(validated) + 1]_vars

\* the transitions of overallStatus the state machine has, with the commands
\* counted in: startChallenge() starts a run and reset() goes back to ready
StatusTransitions ==
  {<<"loading", "ready">>, <<"loading", "failed">>, <<"ready", "running">>,
   <<"running", "success">>, <<"running", "failed">>}

\* C17: overallStatus changes only along loading -> ready -> running ->
\* {success, failed}, loading -> failed, and by the commands; and stepStatus
\* is active only while overallStatus is running.
C17_StatusMachine ==
  /\ [](state.stepStatus = "active" => Running)
  /\ [][state'.overallStatus # state.overallStatus =>
          \/ <<state.overallStatus, state'.overallStatus>> \in StatusTransitions
          \/ ev' = "start" /\ state'.overallStatus = "running"
          \/ ev' = "reset" /\ state'.overallStatus = "ready"]_vars

ActiveCenter ==
  Running /\ state.stepStatus = "active" /\ CurrentStep.type = "center"

\* the pose satisfies |yaw| < 0.25 and |pitch| < 0.20
Satisfying(pose) == Abs(pose.yaw) < 25 /\ Abs(pose.pitch) < 20

\* C12, the counter and the progress of an Active Center step: the counter is
\* below 15 and the reported progress is counter/15.
C12_ProgressIsCounter ==
  ActiveCenter => centerFrames < 15 /\ state.motionProgress * 15 = centerFrames * FULL

\* C12, the ticks of an Active Center step before its timeout: a face frame
\* that satisfies the pose condition adds one to the counter, any other face
\* frame resets it to 0, a tick without a face and the passing of time leave
\* it alone; the progress is counter/15; and the step advances exactly on the
\* tick where the counter reaches 15, which is when the progress reaches 1.
C12_CenterTicks ==
  [][ActiveCenter =>
       /\ (FaceTick /\ elapsed <= 5000) =>
            /\ centerFrames' = IF Satisfying(seen'.pose) THEN centerFrames + 1 ELSE 0
            /\ state'.motionProgress * 15 = centerFrames' * FULL
            /\ state'.stepStatus = "success" <=> centerFrames' = 15
            /\ state'.motionProgress = FULL <=> centerFrames' = 15
            /\ state'.stepStatus \in {"active", "success"}
            /\ state'.currentStepIndex = 0
       /\ ev' \in {"noFace", "time"} =>
            /\ centerFrames' = centerFrames
            /\ state'.motionProgress = state.motionProgress]_vars

\* C12: the hold counter of an Active Center step counts the consecutive
\* most recent satisfying face frames, progress is counter/15, and the step
\* advances exactly on the tick where the counter reaches 15.
C12_CenterHold == []C12_ProgressIsCounter /\ C12_CenterTicks

\* the 15th consecutive centered frame has just completed the Center step
C12_Witness ==
  /\ ev = "tick"
  /\ Satisfying(seen.pose)
  /\ Running
  /\ CurrentStep.type = "center"
  /\ centerFrames = 15
  /\ state.stepStatus = "success"
  /\ state.motionProgress = FULL
  /\ validated = <<0>>

---------------------------------------------------------------------------
(* Claims on the MotionValidator, under SpecMotion *)

\* C6 as stated: a sequence fed to addFrame that contains a consecutive pair
\* differing by more than 0.12 on the selected axis always gets isValid=false
\* with a rejectionReason, whatever its length.
C6_AnyJumpRejected ==
  (fedPoses # <<>> /\ JumpIn(fedPoses, FedDirection))
    => (result.isValid = FALSE /\ result.rejectionReason # NoReason)

\* C6 amended: when the current window (the last 18 poses fed) holds at least
\* 6 poses and contains a pair differing by more than 0.12, addFrame returns
\* isValid=false with a rejectionReason; with fewer than 6 poses it returns
\* isValid=false without a rejectionReason.
C6_JumpInWindowRejected ==
  fedPoses # <<>> =>
    /\ (Len(CurrentWindow) >= 6 /\ JumpIn(CurrentWindow, FedDirection))
         => (result.isValid = FALSE /\ result.rejectionReason # NoReason)
    /\ Len(CurrentWindow) < 6
         => (result.isValid = FALSE /\ result.rejectionReason = NoReason)

\* a rejected window whose displacement and ratio would otherwise do
C6_Witness ==
  /\ Len(fedPoses) >= 6
  /\ JumpIn(CurrentWindow, FedDirection)
  /\ DisplacementOf(CurrentWindow, FedDirection) >= MinimumOf(FedDirection)
  /\ EnoughCorrect(CurrentWindow, FedDirection)
  /\ result.rejectionReason # NoReason

\* C7 as stated: a sequence with every delta below 0.12, displacement at
\* least the minimum and at least 55% correctly-signed deltas gets isValid=true.
C7_SmoothTurnValid ==
  (/\ Len(fedPoses) >= 2
   /\ AllBelow(fedPoses, FedDirection)
   /\ DisplacementOf(fedPoses, FedDirection) >= MinimumOf(FedDirection)
   /\ EnoughCorrect(fedPoses, FedDirection))
    => result.isValid = TRUE

\* C7 amended: the same, of the current window (the last 18 poses fed) once
\* it holds at least 6 poses.
C7_SmoothWindowValid ==
  (/\ Len(CurrentWindow) >= 6
   /\ AllBelow(CurrentWindow, FedDirection)
   /\ DisplacementOf(CurrentWindow, FedDirection) >= MinimumOf(FedDirection)
   /\ EnoughCorrect(CurrentWindow, FedDirection))
    => result.isValid = TRUE

\* a valid turn judged on a window that has slid
C7_Witness ==
  /\ Len(fedPoses) > 18
  /\ AllBelow(CurrentWindow, FedDirection)
  /\ DisplacementOf(CurrentWindow, FedDirection) >= MinimumOf(FedDirection)
  /\ EnoughCorrect(CurrentWindow, FedDirection)
  /\ result.isValid = TRUE

\* C8: isValid=true only if the window holds at least 6 poses, no pair in it
\* differs by more than 0.12 on the selected axis, (last - first) * sign is at
\* least the minimum and at least 55% of the deltas have the expected sign.
C8_ValidOnlyIf ==
  (fedPoses # <<>> /\ result.isValid = TRUE) =>
    /\ Len(CurrentWindow) >= 6
    /\ ~JumpIn(CurrentWindow, FedDirection)
    /\ DisplacementOf(CurrentWindow, FedDirection) >= MinimumOf(FedDirection)
    /\ EnoughCorrect(CurrentWindow, FedDirection)
    /\ \E i \in 1..(Len(CurrentWindow) - 1) :
         DeltaOf(CurrentWindow, i, FedDirection) * SignOf(FedDirection) > 0

\* a vertical turn found valid with exactly the minimum of 6 poses
C8_Witness ==
  /\ Len(fedPoses) = 6
  /\ FedDirection = "lookUp"
  /\ result.isValid = TRUE

---------------------------------------------------------------------------
(* Claims on the BlinkDetector, under SpecBlink *)

HasBothScores(f) ==
  /\ f.defined
  /\ Len(f.list) > 0
  /\ {LeftName, RightName} \subseteq DOMAIN f.list[1]

BothAbove(f, t) ==
  HasBothScores(f) /\ f.list[1][LeftName] > t /\ f.list[1][RightName] > t

BothBelow(f, t) ==
  HasBothScores(f) /\ f.list[1][LeftName] < t /\ f.list[1][RightName] < t

\* a frame with both eyes closed, and on a strictly later frame both open
ClosedThenReopened ==
  \E i, j \in 1..Len(fedScores) :
    i < j /\ BothAbove(fedScores[i], 40) /\ BothBelow(fedScores[j], 20)

C9_ReturnsTrueIff ==
  fedScores # <<>> => (result = TRUE <=> ClosedThenReopened)

C9_PhaseOrder ==
  [][/\ phase' # phase =>
          \/ phase = "waiting" /\ phase' = "eyes_closed"
          \/ phase = "eyes_closed" /\ phase' = "detected"
          \/ fedScores' = <<>>
     /\ (/\ Len(fedScores') = Len(fedScores) + 1
         /\ ~BothAbove(Last(fedScores'), 40)
         /\ ~BothBelow(Last(fedScores'), 20)) => phase' = phase]_vars

\* C9: since the last reset addFrame returns true exactly when the detector
\* has seen both scores above 0.4 and, on a strictly later frame, both below
\* 0.2; the phase only moves waiting -> eyes_closed -> detected, and a frame
\* that is neither a close nor a reopen moves nothing.
C9_BlinkCycle == []C9_ReturnsTrueIff /\ C9_PhaseOrder

\* the close and the reopen, two frames, the second returning true
C9_Witness ==
  /\ Len(fedScores) = 2
  /\ BothAbove(fedScores[1], 40)
  /\ BothBelow(fedScores[2], 20)
  /\ phase = "detected"
  /\ result = TRUE

\* C10: while the two scores never both exceed 0.4 on one frame, the detector
\* stays in waiting and addFrame never returns true.
C10_WinkNeverPasses ==
  (fedScores # <<>> /\ \A i \in 1..Len(fedScores) : ~BothAbove(fedScores[i], 40))
    => (phase = "waiting" /\ result = FALSE)

\* three frames of a one-sided wink, then open eyes: still waiting
C10_Witness ==
  /\ Len(fedScores) = 3
  /\ \A i \in 1..2 :
       /\ HasBothScores(fedScores[i])
       /\ fedScores[i].list[1][LeftName] > 40
       /\ fedScores[i].list[1][RightName] < 20
  /\ BothBelow(fedScores[3], 20)
  /\ phase = "waiting"
  /\ result = FALSE

\* C11: once the detector is detected, addFrame returns true and leaves it
\* detected whatever it is passed, and only reset() brings a detector that
\* left waiting back to waiting.
C11_DetectedIsAbsorbing ==
  [][/\ phase = "detected" /\ fedScores' # <<>>
          => phase' = "detected" /\ result' = TRUE
     /\ phase # "waiting" /\ phase' = "waiting"
          => fedScores' = <<>> /\ result' = NoResult]_vars

\* a detected detector was fed a frame without scores, or with eyes not open
C11_Witness ==
  /\ Len(fedScores) >= 3
  /\ phase = "detected"
  /\ result = TRUE
  /\ ~BothBelow(Last(fedScores), 20)

---------------------------------------------------------------------------
(* Claims on selectLargestFace, under SpecSelect *)

\* |rightCheekX - leftCheekX| * |chinY - foreheadY|
BoxArea(face) == Abs(face.right - face.left) * Abs(face.bottom - face.top)

\* the 0-based indices of the faces of maximal area
MaximalFaces ==
  {i \in 0..(Len(faceLandmarks) - 1) :
     \A j \in 0..(Len(faceLandmarks) - 1) :
       BoxArea(faceLandmarks[i + 1]) >= BoxArea(faceLandmarks[j + 1])}

\* C13: selectLargestFace returns null for an empty face list, and otherwise
\* the face of maximal bounding-box area with the lowest index among those of
\* maximal area, and with the expression scores of that same index.
C13_LargestFaceEarliest ==
  IF Len(faceLandmarks) = 0
  THEN selection = Null
  ELSE /\ selection # Null
       /\ selection.faceIndex \in MaximalFaces
       /\ \A i \in MaximalFaces : selection.faceIndex <= i
       /\ selection.landmarks = faceLandmarks[selection.faceIndex + 1]
       /\ ~faceBlendshapes.null =>
            selection.blendshapes.list =
              <<faceBlendshapes.list[selection.faceIndex + 1]>>

\* a smaller face first, then two faces of the same maximal area: the
\* first of the two is returned, with its scores
C13_Witness ==
  /\ Len(faceLandmarks) = 3
  /\ BoxArea(faceLandmarks[1]) = 1000
  /\ BoxArea(faceLandmarks[2]) = 2500
  /\ BoxArea(faceLandmarks[3]) = 2500
  /\ faceLandmarks[2] # faceLandmarks[3]
  /\ ~faceBlendshapes.null
  /\ selection.faceIndex = 1
  /\ selection.blendshapes.list[1][LeftName] = 10

---------------------------------------------------------------------------
(* Claims on the resources, under SpecLifecycle and SpecSingleton *)

\* init() of the effect has run to its end, or into its catch
Settled(e) == e.pc \in {"looping", "failed"}

\* C15: once the component is unmounted no tick of its loop is scheduled,
\* and when every component is unmounted and every init() has run to its end
\* no camera stream is live and no FaceLandmarker is open, at whatever point
\* of the initialization the unmount came.
C15_TeardownReleases ==
  /\ \A i \in DOMAIN effects : ~effects[i].mounted => ~effects[i].raf
  /\ (\A i \in DOMAIN effects : ~effects[i].mounted /\ Settled(effects[i]))
       => /\ \A i \in DOMAIN effects : effects[i].stream # "live"
          /\ \A n \in DOMAIN instances : instances[n] # "open"

\* C16, acquire once: at most one creation is in flight and at most one
\* instance is open.
C16_AtMostOne ==
  /\ Cardinality({p \in DOMAIN promises :
                    promises[p].status \in {"vision", "creating"}}) <= 1
  /\ Cardinality({n \in DOMAIN instances : instances[n] = "open"}) <= 1

\* C16: calls without a destroy between them share one creation, and the
\* call that follows destroyFaceLandmarker() is answered with an instance
\* that is not closed or with a creation that has not already failed.
C16_AcquireOnceAndAgain ==
  /\ []C16_AtMostOne
  /\ [][(ev = "destroy" /\ ev' = "get") =>
          LET returned == Last(calls')
          IN  /\ returned.value # 0 => instances'[returned.value] = "open"
              /\ returned.promise # 0 =>
                    promises'[returned.promise].status # "rejected"]_vars

---------------------------------------------------------------------------
(* C19, under SpecMotion *)

\* every pose fed so far moved the head the expected way, by at most 0.12
StrictlyExpected(seq, d) ==
  \A i \in 1..(Len(seq) - 1) :
    /\ DeltaOf(seq, i, d) * SignOf(d) > 0
    /\ DeltaOf(seq, i, d) * SignOf(d) <= 12

\* one more addFrame call on a validator that has already answered one
NextFrameFed == fedPoses # <<>> /\ \E pose \in NextPoses : fedPoses' = Append(fedPoses, pose)

ProgressInRange == fedPoses # <<>> => (result.progress >= 0 /\ result.progress <= FULL)

\* C19 as stated: the progress of a MotionValidator is always within [0, 1],
\* and over successive addFrame calls whose poses all move strictly in the
\* expected direction (each by at most 0.12) it never decreases, also after
\* the 18-pose window has started to slide.
C19_ProgressNeverDecreases ==
  /\ []ProgressInRange
  /\ [][(NextFrameFed /\ StrictlyExpected(fedPoses', FedDirection))
          => result'.progress >= result.progress]_vars

\* C19 amended: the progress is always within [0, 1]; over such calls it never
\* decreases as long as no pose has left the window (at most 18 poses fed).
\* From then on it is the clamped displacement of the last 18 poses, which
\* can be lower than the one before.
C19_ProgressMonotoneUntilSlide ==
  /\ []ProgressInRange
  /\ [][(NextFrameFed /\ StrictlyExpected(fedPoses', FedDirection)
           /\ Len(fedPoses') <= 18)
          => result'.progress >= result.progress]_vars
  /\ []((Len(fedPoses) >= 6 /\ StrictlyExpected(fedPoses, FedDirection))
          => result.progress =
               Min(FULL, (DisplacementOf(CurrentWindow, FedDirection) * FULL)
                           \div MinimumOf(FedDirection)))

\* a full window of strictly expected moves whose progress is partial
C19_Witness ==
  /\ Len(fedPoses) = 18
  /\ StrictlyExpected(fedPoses, FedDirection)
  /\ result.progress > 0
  /\ result.progress < FULL

---------------------------------------------------------------------------
(* C20, under SpecSequence *)

HeadDirections == {challengeSequence[2 * k].direction : k \in 1..3}

SevenSteps ==
  /\ Len(challengeSequence) = 7
  /\ challengeSequence[1].type = "center"
  /\ \A k \in 1..3 :
       /\ challengeSequence[2 * k].type = "head"
       /\ challengeSequence[2 * k].direction \in Directions
       /\ challengeSequence[2 * k + 1].type = "blink"
  /\ Cardinality(HeadDirections) = 3

\* C20: the sequence of a session always has 7 steps, Center and then three
\* times Head followed by Blink, the three head directions being pairwise
\* distinct directions out of the four, and it stays the same all through the
\* session.
C20_SevenStepsFixed ==
  /\ []SevenSteps
  /\ [][challengeSequence' = challengeSequence]_vars

\* a started session whose sequence asks for down, right and left
C20_Witness ==
  /\ state.overallStatus = "running"
  /\ isRunningRef
  /\ challengeSequence[2].direction = "lookDown"
  /\ challengeSequence[4].direction = "turnRight"
  /\ challengeSequence[6].direction = "turnLeft"

---------------------------------------------------------------------------
(* C21 and C22, under Spec *)

\* the step of Spec made a step Active: it was not Active before, or it is
\* another step
BecomesActive ==
  /\ state'.stepStatus = "active"
  /\ state.stepStatus # "active" \/ state'.currentStepIndex # state.currentStepIndex

\* C21: a step becomes Active only at startChallenge() or when the callback of
\* the 800 ms pause runs, and at that instant the pose window is empty, the
\* blink phase is waiting, the hold counter is 0, the step has not advanced
\* and no time of its 5000 ms has elapsed.
C21_ActivationResets ==
  [][/\ BecomesActive => ev' \in {"start", "timer"}
     /\ ev' \in {"start", "timer"} =>
          /\ state'.stepStatus = "active"
          /\ state'.currentStepIndex = currentStepRef'
          /\ poseHistory' = <<>>
          /\ phase' = "waiting"
          /\ centerFrames' = 0
          /\ elapsed' = 0
          /\ ~hasAdvanced'
          /\ state'.motionProgress = 0]_vars

\* the pause after a validated head step has just ended: the blink step is
\* active on an empty window
C21_Witness ==
  /\ ev = "timer"
  /\ Running /\ state.stepStatus = "active"
  /\ state.currentStepIndex = 2
  /\ {0, 1} \subseteq ValidatedSteps
  /\ poseHistory = <<>>
  /\ elapsed = 0

\* C22: while the step has advanced and its pause is running, no tick, with a
\* face or without, reports a timeout or fails the session with the timeout
\* message, however long ago the step started.
C22_NoTimeoutInPause ==
  [][(AnyTick /\ hasAdvanced)
       => /\ state'.feedbackMessage # MsgTimeExpired
          /\ ~FailedWith(state', MsgTimeExpired)]_vars

\* a tick with a face ran in the pause of a step that started more than
\* 5000 ms ago, and the session is still running
C22_Witness ==
  /\ ev = "tick"
  /\ hasAdvanced
  /\ timers # <<>>
  /\ elapsed > 5000
  /\ Running /\ state.stepStatus = "success"
  /\ isRunningRef

---------------------------------------------------------------------------
(* C23, under SpecMotion *)

\* pose k of the poses fed is a spike: both its neighbours differ from it by
\* more than 0.12 on the selected axis
SpikeAt(k) ==
  /\ k \in 2..(Len(fedPoses) - 1)
  /\ Abs(DeltaOf(fedPoses, k - 1, FedDirection)) > 12
  /\ Abs(DeltaOf(fedPoses, k, FedDirection)) > 12

\* the spike is the only outlier: every other pair of poses fed is jump-free
OnlySpike(k) ==
  /\ SpikeAt(k)
  /\ \A i \in 1..(Len(fedPoses) - 1) :
       i \notin {k - 1, k} => Abs(DeltaOf(fedPoses, i, FedDirection)) <= 12

\* pose k is among the last 18 poses fed
InWindow(k) == k > Len(fedPoses) - 18

AgedOut(k) == Len(fedPoses) >= k + 18

\* C23 as stated: a single spike makes every addFrame result carry a
\* rejectionReason for as long as it is inside the 18-pose window, and once 18
\* further jump-free poses have been fed there is no rejectionReason any more.
C23_SpikeRejectedWhileInWindow ==
  \A k \in DOMAIN fedPoses :
    OnlySpike(k) =>
      /\ InWindow(k) => result.rejectionReason # NoReason
      /\ AgedOut(k) => result.rejectionReason = NoReason

\* C23 amended: the same from the sixth pose fed on; the results of the first
\* five calls carry no rejectionReason, spike or not.
C23_SpikeRejectedFromSixPoses ==
  /\ \A k \in DOMAIN fedPoses :
       OnlySpike(k) =>
         /\ (InWindow(k) /\ Len(fedPoses) >= 6) => result.rejectionReason # NoReason
         /\ AgedOut(k) => result.rejectionReason = NoReason
  /\ (fedPoses # <<>> /\ Len(fedPoses) < 6) => result.rejectionReason = NoReason

\* the spike was the second pose fed and the twentieth pose has pushed it out
C23_Witness ==
  /\ Len(fedPoses) = 20
  /\ OnlySpike(2)
  /\ Len(poseHistory) = 18
  /\ result.rejectionReason = NoReason

---------------------------------------------------------------------------
(* C24, under SpecBlink *)

\* the step of SpecBlink fed addFrame an input without both scores: undefined,
\* an empty list, or categories lacking eyeBlinkLeft or eyeBlinkRight
MissingScoresFed ==
  /\ Len(fedScores') = Len(fedScores) + 1
  /\ ~HasBothScores(Last(fedScores'))

\* C24 as stated: for such an input addFrame makes no phase transition and
\* returns false, in every phase of the detector.
C24_MissingScoresFalse ==
  [][MissingScoresFed => phase' = phase /\ result' = FALSE]_vars

\* C24 amended: for such an input addFrame makes no phase transition in any
\* phase; it returns false in waiting and in eyes_closed, and true in detected.
C24_MissingScoresNoTransition ==
  [][MissingScoresFed => phase' = phase /\ result' = (phase = "detected")]_vars

\* a detector whose eyes are closed was fed an input without both scores
C24_Witness ==
  /\ Len(fedScores) >= 2
  /\ ~HasBothScores(Last(fedScores))
  /\ phase = "eyes_closed"
  /\ result = FALSE

---------------------------------------------------------------------------
(* C25 to C27, under Spec *)

\* the step of Spec changed what the per-tick challenge logic works on
ChallengeLogicActed ==
  \/ poseHistory' # poseHistory
  \/ phase' # phase
  \/ centerFrames' # centerFrames
  \/ state'.currentStepIndex # state.currentStepIndex
  \/ state'.stepStatus # state.stepStatus

\* C25: the running flag that gates the tick and the observable overallStatus
\* always agree, and a tick changes the pose window, the blink phase, the hold
\* counter, the step index or the step status only when overallStatus is
\* running.
C25_RunningFlagAgrees ==
  /\ [](isRunningRef <=> Running)
  /\ [][(AnyTick /\ ChallengeLogicActed) => Running]_vars

\* the step shown is in the pause after its Success
InPause == Running /\ state.stepStatus = "success"

\* C26: between a step's Success and the next step's activation, no tick
\* changes overallStatus to failed, whatever the type of the step.
C26_NoFailureInPause ==
  [][(AnyTick /\ InPause) => state'.overallStatus # "failed"]_vars

LastIndex == Len(challengeSequence) - 1

\* C27: within one session, that is from one startChallenge() or reset() to
\* the next, the step index never decreases, never skips an index and never
\* exceeds the last index of the sequence.
C27_IndexAdvancesByOne ==
  /\ [](currentStepRef <= LastIndex /\ state.currentStepIndex <= LastIndex)
  /\ [][ev' \notin {"start", "reset"} =>
          /\ currentStepRef' \in {currentStepRef, currentStepRef + 1}
          /\ state'.currentStepIndex \in
               {state.currentStepIndex, state.currentStepIndex + 1}]_vars

=============================================================================
